---- MODULE Spec2Model ----
(***************************************************************************)
(* Batch capture controller (ScannerService, electron/main/                *)
(* image-processor.ts 237-548) and batch orchestrator with its strict-     *)
(* order processing queue (electron/main/index.ts 97-359).                 *)
(*                                                                         *)
(* Node runs one handler at a time: an action is what one handler does     *)
(* between two suspension points (an await on I/O or a timer), together    *)
(* with the promise reactions (microtasks) it makes runnable.  A batch is  *)
(* named by the number of the accepted 'scanner:start' request that        *)
(* created it; its capture session, scratch directory, scan process and    *)
(* poll timer carry the same number.  NULL stands for null.                *)
(***************************************************************************)
EXTENDS Integers, Sequences, FiniteSets, TLC

\* Bounds of the model with several batches (Spec).
MaxBatches == 2     \* accepted 'scanner:start' requests
MaxPages == 2       \* page files the scan tool writes, over all sessions
MaxPolls == 1       \* checkForNewPages calls of the timers in flight at once

\* Bounds of the model of one batch (SpecBatch).
OnePages == 2       \* page files the scan tool writes
OnePolls == 1       \* checkForNewPages calls of the timer in flight at once

\* Bounds of the model of the close-time drain (SpecDrain).
DrainPages == 8     \* page files the scan tool writes

\* Bounds of the model of the page mapping (SpecMap).
MaxSeq == 6         \* highest page sequence number
MaxMapped == 3      \* page events

\* Bounds of the model of the page pipeline (SpecPages).
PagesMax == 2       \* page events
MaxOut == 8         \* pieces printed by the tool in a listDevices call

\* Program constants.
maxRetries == 10    \* waitForRemainingPages
giveUpAttempt == 3  \* waitForRemainingPages: attempt >= 3 && processed === 0
NoDocs == 7         \* SANE_STATUS_NO_DOCS
standardWidthMm == 63     \* CARD_DIMENSIONS.standardMm.width
standardHeightMm == 88    \* CARD_DIMENSIONS.standardMm.height
tolerancePercent == 15    \* CARD_DIMENSIONS.tolerancePercent
padLength == 4            \* generateFilename: padStart(4, '0')
defaultDpi == 600         \* settings.dpi
defaultContrast == -10    \* settings.scannerContrast
neutralGamma == 10        \* gamma 1.0; gamma values are kept in tenths

NULL == 0
NullCode == -1      \* exit status null: the process was ended by a signal
SpawnFailCode == -2 \* status of the 'close' that follows a failed spawn
Batches == 1..MaxBatches
ExitCodes == {0, NoDocs, 2, NullCode}
BatchNames == {"", "batch"}

\* The crop region of a standard card scanned at 600 dpi.
StandardRegion == [width |-> 1488, height |-> 2079]

\* Crop regions at and around the limits of validateCrop at 600 dpi.
Regions ==
  {StandardRegion,
   [width |-> 1000, height |-> 2079], [width |-> 1000, height |-> 1000],
   [width |-> 1265, height |-> 2079], [width |-> 1265, height |-> 1768],
   [width |-> 1712, height |-> 2079], [width |-> 1488, height |-> 1767],
   [width |-> 1488, height |-> 2390], [width |-> 1488, height |-> 2391]}

\* Page sequence numbers whose card numbers have one to five digits.
PageSeqs == {1, 2, 10, 9999, 10000}

\* What a specification lets the environment do: the bounds, the exit statuses the
\* scan tool reports, the settings the renderer writes, whether a page file
\* appears whole (TRUE) or is seen while it is being written (FALSE), and the crop
\* regions autoCrop finds.
Lim == [batches |-> MaxBatches, pages |-> MaxPages, polls |-> MaxPolls,
        codes |-> {0, 2}, settings |-> {[deviceId |-> "dev"]}, whole |-> {TRUE},
        regions |-> {StandardRegion}]
LimBatch == [batches |-> 1, pages |-> OnePages, polls |-> OnePolls,
             codes |-> ExitCodes,
             settings |-> {[deviceId |-> "dev"], [duplex |-> FALSE]},
             whole |-> {FALSE}, regions |-> {StandardRegion}]

LimDrain == [batches |-> 1, pages |-> DrainPages, polls |-> 0, codes |-> {0, 2},
             settings |-> {[deviceId |-> "dev"]}, whole |-> {FALSE},
             regions |-> {StandardRegion}]

LimStop == [batches |-> MaxBatches, pages |-> 0, polls |-> MaxPolls, codes |-> {0, 2},
            settings |-> {[deviceId |-> "dev"], [deviceId |-> ""]}, whole |-> {TRUE},
            regions |-> {StandardRegion}]

LimPages == [batches |-> 1, pages |-> 0, polls |-> 0, codes |-> {0},
             settings |-> {[deviceId |-> "dev"], [format |-> "jpg"]},
             whole |-> {TRUE}, regions |-> Regions]

LimArgs == [batches |-> 1, pages |-> 0, polls |-> 0, codes |-> {0},
            settings |-> {[deviceId |-> "dev"],
                          [scannerBrightness |-> -50], [scannerBrightness |-> -25],
                          [scannerBrightness |-> 0], [scannerBrightness |-> 1],
                          [scannerBrightness |-> 50],
                          [scannerContrast |-> -50], [scannerContrast |-> 0],
                          [scannerContrast |-> 50],
                          [scannerGamma |-> 10], [scannerGamma |-> 12]},
            whole |-> {TRUE}, regions |-> {StandardRegion}]

LimLive == [batches |-> MaxBatches, pages |-> 1, polls |-> 1, codes |-> {0, 2},
            settings |-> {[deviceId |-> "dev"]}, whole |-> {TRUE},
            regions |-> {StandardRegion}]

VARIABLES
  \* electron/main/index.ts
  currentBatchName, currentOutputDir, cardCount, processingQueue, settings,
  tasks,        \* the reactions of the page events, in the order of the events
  conts,        \* the reset reactions registered by 'complete' / 'error'
  starts,       \* 'scanner:start' handlers awaiting mkdir
  nextBatch,    \* number of the next batch
  uiComplete, uiError, uiStartError,   \* messages sent to the renderer
  \* ScannerService
  scanning, tempDir, process, pollInterval, processedPages,
  timers,       \* the intervals that are set and not cleared
  mkdtemps,     \* startBatch calls awaiting mkdtemp
  duplexOf,     \* options.duplex captured by a session's closures
  optionsOf,    \* the rest of the scanOptions a session was started with
  polls,        \* checkForNewPages calls of the timers, in flight
  drain,        \* the 'close' handler of each session
  \* the scan tool and the file system
  proc, nfiles, ready, dir, killed,
  argv,         \* the arguments each session's scan tool was spawned with
  deviceList    \* the listDevices call: its process, its output, its promise

orchVars == <<currentBatchName, currentOutputDir, cardCount, processingQueue,
              tasks, conts, uiComplete, uiError>>
scanVars == <<scanning, tempDir, process, pollInterval, timers, dir>>
vars == <<currentBatchName, currentOutputDir, cardCount, processingQueue, settings,
          tasks, conts, starts, nextBatch, uiComplete, uiError, uiStartError,
          scanning, tempDir, process, pollInterval, processedPages, timers,
          mkdtemps, duplexOf, optionsOf, polls, drain, proc, nfiles, ready, dir,
          killed, argv, deviceList>>

Min(S) == CHOOSE x \in S : \A y \in S : x <= y
Max(S) == CHOOSE x \in S : \A y \in S : x >= y

----------------------------------------------------------------------------
\* A faulty variant, for the properties below: the card number is rounded down.
getCardInfoFloor(pageNumber, duplex) ==
  IF ~duplex
    THEN [cardNumber |-> pageNumber, side |-> "F"]
    ELSE [cardNumber |-> pageNumber \div 2,
          side |-> IF pageNumber % 2 = 1 THEN "F" ELSE "B"]

\* ScannerService.getCardInfo; Math.ceil(pageNumber / 2) in integers.
getCardInfo(pageNumber, duplex) ==
  IF ~duplex
    THEN [cardNumber |-> pageNumber, side |-> "F"]
    ELSE [cardNumber |-> (pageNumber + 1) \div 2,
          side |-> IF pageNumber % 2 = 1 THEN "F" ELSE "B"]

----------------------------------------------------------------------------
\* The image pipeline (image-processor.ts 103-193); numbers are integers.

Abs(x) == IF x < 0 THEN -x ELSE x

\* Math.round(num / den) for den > 0: the nearest integer, a half going up.
Round(num, den) == (2 * num + den) \div (2 * den)

\* const mmToPixels = (mm) => Math.round((mm / 25.4) * dpi)
mmToPixels(mm, dpi) == Round(10 * mm * dpi, 254)

\* A faulty variant, for the properties below: the aspect ratio is checked before
\* the height.
validateCropRatioFirst(region, dpi) ==
  LET expectedWidth == mmToPixels(standardWidthMm, dpi)
      expectedHeight == mmToPixels(standardHeightMm, dpi)
      minWidth == expectedWidth * (100 - tolerancePercent)
      maxWidth == expectedWidth * (100 + tolerancePercent)
      minHeight == expectedHeight * (100 - tolerancePercent)
      maxHeight == expectedHeight * (100 + tolerancePercent)
  IN IF 100 * region.width < minWidth \/ 100 * region.width > maxWidth
       THEN [valid |-> FALSE,
             reason |-> <<"Width", region.width, Round(minWidth, 100), Round(maxWidth, 100)>>]
     ELSE IF 100 * Abs(standardHeightMm * region.width - standardWidthMm * region.height)
               > tolerancePercent * standardWidthMm * region.height
       THEN [valid |-> FALSE, reason |-> <<"Aspect ratio", region.width, region.height, 0>>]
     ELSE IF 100 * region.height < minHeight \/ 100 * region.height > maxHeight
       THEN [valid |-> FALSE,
             reason |-> <<"Height", region.height, Round(minHeight, 100), Round(maxHeight, 100)>>]
     ELSE [valid |-> TRUE, reason |-> <<>>]

\* validateCrop.  The limits are kept in hundredths (expected * (1 -+ 15 / 100));
\* ratioDiff > tolerance is |w/h - 63/88| / (63/88) > 15/100 cleared of fractions.
\* A reason is <<what, the value, lower limit, upper limit>>, the limits rounded.
validateCrop(region, dpi) ==
  LET expectedWidth == mmToPixels(standardWidthMm, dpi)
      expectedHeight == mmToPixels(standardHeightMm, dpi)
      minWidth == expectedWidth * (100 - tolerancePercent)
      maxWidth == expectedWidth * (100 + tolerancePercent)
      minHeight == expectedHeight * (100 - tolerancePercent)
      maxHeight == expectedHeight * (100 + tolerancePercent)
  IN IF 100 * region.width < minWidth \/ 100 * region.width > maxWidth
       THEN [valid |-> FALSE,
             reason |-> <<"Width", region.width, Round(minWidth, 100), Round(maxWidth, 100)>>]
     ELSE IF 100 * region.height < minHeight \/ 100 * region.height > maxHeight
       THEN [valid |-> FALSE,
             reason |-> <<"Height", region.height, Round(minHeight, 100), Round(maxHeight, 100)>>]
     ELSE IF 100 * Abs(standardHeightMm * region.width - standardWidthMm * region.height)
               > tolerancePercent * standardWidthMm * region.height
       THEN [valid |-> FALSE, reason |-> <<"Aspect ratio", region.width, region.height, 0>>]
     ELSE [valid |-> TRUE, reason |-> <<>>]

\* cardNumber.toString(): the decimal digits, as characters.
DigitChars == <<"0", "1", "2", "3", "4", "5", "6", "7", "8", "9">>

RECURSIVE toString(_)
toString(n) ==
  IF n < 10 THEN <<DigitChars[n + 1]>>
            ELSE Append(toString(n \div 10), DigitChars[(n % 10) + 1])

\* String.prototype.padStart with a one-character fill
RECURSIVE padStart(_, _, _)
padStart(str, targetLength, fill) ==
  IF Len(str) >= targetLength THEN str
                              ELSE padStart(<<fill>> \o str, targetLength, fill)

\* A faulty variant, for the properties below: the number is cut to its last
\* four digits.
generateFilenameCut(cardNumber, side, format) ==
  padStart(toString(cardNumber % 10000), padLength, "0") \o <<side, ".", format>>

\* generateFilename: `${paddedNumber}${side}.${format}`, as a sequence of
\* characters (the extension is one element).
generateFilename(cardNumber, side, format) ==
  padStart(toString(cardNumber), padLength, "0") \o <<side, ".", format>>

----------------------------------------------------------------------------
\* The orchestrator's state as one value, for the handlers that run inside
\* another handler's step.
Orch ==
  [currentBatchName |-> currentBatchName, currentOutputDir |-> currentOutputDir,
   cardCount |-> cardCount, processingQueue |-> processingQueue,
   tasks |-> tasks, conts |-> conts, uiComplete |-> uiComplete, uiError |-> uiError]

SetOrch(o) ==
  \E v \in {o} :
    /\ currentBatchName' = v.currentBatchName
    /\ currentOutputDir' = v.currentOutputDir
    /\ cardCount' = v.cardCount
    /\ processingQueue' = v.processingQueue
    /\ tasks' = v.tasks
    /\ conts' = v.conts
    /\ uiComplete' = v.uiComplete
    /\ uiError' = v.uiError

\* A promise is 0 (Promise.resolve()) or k, the promise of tasks[k]'s reaction.
Resolved(o, p) == p = 0 \/ o.tasks[p].st = "done"

\* The state reset of the 'complete' and 'error' reactions.
ResetState(o) ==
  [o EXCEPT !.currentBatchName = NULL, !.currentOutputDir = NULL,
            !.cardCount = 0, !.processingQueue = 0]

\* One reset reaction runs: processingQueue.then(() => {...}) of 'complete'
\* sends 'scan:complete' and resets; that of 'error' only resets.
RunCont(o, i) ==
  LET c == o.conts[i]
      sent == IF c.kind = "complete"
                THEN [o EXCEPT !.uiComplete[c.sess] = @ + 1,
                               !.conts[i].ran = TRUE,
                               !.conts[i].count = o.cardCount]
                ELSE [o EXCEPT !.conts[i].ran = TRUE]
  IN ResetState(sent)

\* A page reaction starts: without an output directory it returns at once,
\* otherwise it builds processingOptions from the settings and awaits processCard.
StartTask(o, k) ==
  IF o.tasks[k].outputDir = NULL
    THEN [o EXCEPT !.tasks[k].st = "done", !.tasks[k].res = "dropped"]
    ELSE [o EXCEPT !.tasks[k].st = "processCard",
                   !.tasks[k].format = settings.format, !.tasks[k].dpi = settings.dpi]

\* The microtask queue: every reaction whose promise is resolved runs, the reset
\* reactions of a promise before its page reaction (they were registered first:
\* a page event moves processingQueue on to the new promise).  The state after
\* each reaction is bound through a one-element set, so that it is computed once.
RECURSIVE Flush(_)
Flush(o) ==
  LET rc == {i \in 1..Len(o.conts) : ~o.conts[i].ran /\ Resolved(o, o.conts[i].dep)}
      rt == {k \in 1..Len(o.tasks) :
               o.tasks[k].st = "queued" /\ Resolved(o, o.tasks[k].dep)}
  IN IF rc # {} THEN CHOOSE r \in {Flush(v) : v \in {RunCont(o, Min(rc))}} : TRUE
     ELSE IF rt # {} THEN CHOOSE r \in {Flush(v) : v \in {StartTask(o, Min(rt))}} : TRUE
     ELSE o

\* A faulty variant, for the properties below: every page reaction is chained on a promise that
\* is already resolved, as if pages were handled by an async listener.
ChainOnResolved(o) == 0

\* The promise a page reaction is chained on: processingQueue.then(...)
ChainOn(o) == o.processingQueue

\* What processCard returns for a page before it has run.
NoValidation == [valid |-> TRUE, reason |-> <<>>]
NoRegion == [width |-> 0, height |-> 0]

\* scanner.on('page').  A page reaction is [st: where it is, res: how it ended,
\* current: the count its 'scan:progress' carried, progress: the 'scan:progress'
\* messages it sent, dest: the directory its file was written to, format and
\* dpi: its processingOptions, filename and validation: what processCard returned].
OnPage(o, page) ==
  LET t == [pageNumber |-> page.pageNumber, cardNumber |-> page.cardNumber,
            side |-> page.side, sess |-> page.sess, src |-> page.src,
            batch |-> o.currentBatchName, outputDir |-> o.currentOutputDir,
            dep |-> ChainOn(o), st |-> "queued", res |-> "none",
            current |-> 0, progress |-> 0, dest |-> NULL,
            format |-> "", dpi |-> 0, filename |-> <<>>, region |-> NoRegion,
            validation |-> NoValidation, errors |-> <<>>]
      queued == [o EXCEPT !.tasks = Append(@, t), !.processingQueue = Len(o.tasks) + 1]
  IN Flush(queued)

\* A reset reaction as it is registered: processingQueue.then(() => {...}).  emitted
\* is the number of page events handled before it.
NewCont(o, kind, s) ==
  [kind |-> kind, sess |-> s, dep |-> o.processingQueue, ran |-> FALSE,
   emitted |-> Len(o.tasks), count |-> 0]

\* scanner.on('complete')
OnComplete(o, s) ==
  Flush([o EXCEPT !.conts = Append(@, NewCont(o, "complete", s))])

\* scanner.on('error'): 'scan:error' is sent at once.
OnError(o, s) ==
  Flush([o EXCEPT !.uiError[s] = @ + 1,
                  !.conts = Append(@, NewCont(o, "error", s))])

----------------------------------------------------------------------------
\* The ScannerService fields that cleanup() touches, as one value.
Scan ==
  [scanning |-> scanning, tempDir |-> tempDir, process |-> process,
   pollInterval |-> pollInterval, timers |-> timers, dir |-> dir]

SetScan(sc) ==
  /\ scanning' = sc.scanning
  /\ tempDir' = sc.tempDir
  /\ process' = sc.process
  /\ pollInterval' = sc.pollInterval
  /\ timers' = sc.timers
  /\ dir' = sc.dir

\* if (this.pollInterval) { clearInterval(this.pollInterval); this.pollInterval = null }
ClearPoll(sc) ==
  IF sc.pollInterval # NULL
    THEN [sc EXCEPT !.timers = @ \ {sc.pollInterval}, !.pollInterval = NULL]
    ELSE sc

\* A faulty variant, for the properties below: the process handle is kept.
cleanupKeepsProcess(sc) ==
  LET a == ClearPoll([sc EXCEPT !.scanning = FALSE])
  IN IF a.tempDir # NULL
       THEN [a EXCEPT !.dir[a.tempDir] = "rm", !.tempDir = NULL]
       ELSE a

\* ScannerService.cleanup: rm() of the scratch directory is requested, not awaited.
cleanup(sc) ==
  LET a == ClearPoll([sc EXCEPT !.scanning = FALSE])
      b == IF a.tempDir # NULL
             THEN [a EXCEPT !.dir[a.tempDir] = "rm", !.tempDir = NULL]
             ELSE a
  IN [b EXCEPT !.process = NULL]

----------------------------------------------------------------------------
\* checkForNewPages.  A call is [sess: the session whose closure made it, pc,
\* dir: the directory being listed, listing: the page files found (page0001.png ..),
\* cur: the page being read, rdir: the directory it is read from, n: pagesProcessed].
NoPoll == [id |-> 0, sess |-> 0, pc |-> "none", dir |-> NULL, listing |-> 0,
           cur |-> 0, rdir |-> NULL, n |-> 0]

NewPoll(i, s, td) == [NoPoll EXCEPT !.id = i, !.sess = s, !.pc = "readdir", !.dir = td]

\* The for loop from the file after `after`: pages already in processedPages are
\* skipped; join(this.tempDir, file) throws when tempDir is null, which the inner
\* catch swallows for every remaining file.
NextRead(p, after, pp, td) ==
  LET cand == {f \in (after + 1)..p.listing : f \notin pp}
  IN IF cand = {} \/ td = NULL
       THEN [p EXCEPT !.pc = "done", !.cur = 0, !.rdir = NULL]
       ELSE [p EXCEPT !.pc = "read", !.cur = Min(cand), !.rdir = td]

\* readdir(this.tempDir) settles.
AfterReaddir(p, ok, pp, td) ==
  IF ok THEN NextRead([p EXCEPT !.listing = nfiles[p.dir], !.dir = NULL], 0, pp, td)
        ELSE [p EXCEPT !.pc = "done", !.dir = NULL]

\* readdir of a directory succeeds, unless its removal has been requested: then
\* it succeeds or fails, as the removal has got on.
ReaddirCan(d, ok) == ~ok => dir[d] = "rm"

\* A page file can be read once the tool has written all of it.
Readable(p) == p.cur \in ready[p.rdir]

\* readFile fails while the file is being written or is not there; once removal
\* of the directory has been requested it may fail in any case.
ReadCan(p, ok) == IF dir[p.rdir] = "rm" THEN ok => Readable(p) ELSE ok = Readable(p)

\* The page event of a successful read.
PageOf(p) ==
  LET info == getCardInfo(p.cur, duplexOf[p.sess])
  IN [pageNumber |-> p.cur, cardNumber |-> info.cardNumber, side |-> info.side,
      sess |-> p.sess, src |-> p.rdir]

\* A faulty variant, for the properties below: the page is marked before its
\* file is read, so a failed read consumes it.
ConsumedBeforeRead(pp, p, ok) == pp \cup {p.cur}

\* processedPages after readFile of page p.cur settled: the page is added on
\* success only.
Consumed(pp, p, ok) == IF ok THEN pp \cup {p.cur} ELSE pp

\* readFile settles: on success the page is added to processedPages and emitted.
AfterRead(p, ok, pp, td, count) ==
  LET pp2 == Consumed(pp, p, ok)
      p2 == IF ok /\ count THEN [p EXCEPT !.n = @ + 1] ELSE p
  IN NextRead(p2, p.cur, pp2, td)

----------------------------------------------------------------------------
\* 'scanner:start' building scanOptions (index.ts 300-318) and startBatch
\* building the arguments of the scan tool (image-processor.ts 334-366).

\* color: undefined
NoColor == [defined |-> FALSE, brightness |-> 0, contrast |-> 0, gamma |-> neutralGamma]
NoOptions == [deviceId |-> "", dpi |-> 0, color |-> NoColor]

hasColorOptions(s) ==
  s.scannerBrightness # 0 \/ s.scannerContrast # 0 \/ s.scannerGamma # neutralGamma

\* Math.round(value * 2.54)
toScannerRange(value) == Round(254 * value, 100)

\* scanOptions without duplex, which duplexOf holds.
scanOptions(s) ==
  [deviceId |-> s.deviceId, dpi |-> s.dpi,
   color |-> IF hasColorOptions(s)
               THEN [defined |-> TRUE,
                     brightness |-> toScannerRange(s.scannerBrightness),
                     contrast |-> toScannerRange(s.scannerContrast),
                     gamma |-> s.scannerGamma]
               ELSE NoColor]

Arg(flag, value) == <<[flag |-> flag, value |-> value]>>

\* A faulty variant, for the properties below: the three flags are always given
\* with the tone adjustment.
ColorArgsAll(color) ==
  IF ~color.defined THEN <<>>
  ELSE Arg("--tone-adjustment", "Custom") \o Arg("--brightness", color.brightness)
       \o Arg("--contrast", color.contrast) \o Arg("--gamma", color.gamma)

\* if (options.color) { args.push('--tone-adjustment', 'Custom'); ... }
ColorArgs(color) ==
  IF ~color.defined THEN <<>>
  ELSE Arg("--tone-adjustment", "Custom")
       \o (IF color.brightness # 0 THEN Arg("--brightness", color.brightness) ELSE <<>>)
       \o (IF color.contrast # 0 THEN Arg("--contrast", color.contrast) ELSE <<>>)
       \o (IF color.gamma # neutralGamma THEN Arg("--gamma", color.gamma) ELSE <<>>)

\* The arguments that depend on the options; the fixed ones (mode, format, batch
\* pattern, paper size) are left out.
ScanArgs(options, duplex) ==
  Arg("-d", options.deviceId) \o Arg("--resolution", options.dpi)
  \o Arg("--source", IF duplex THEN "Adf-duplex" ELSE "Adf-front")
  \o ColorArgs(options.color)

----------------------------------------------------------------------------
\* listDevices (image-processor.ts 260-313).  What the tool prints is a sequence
\* of pieces: the literals of the device pattern, a line end, a blank, two words.
\* "device <" stands for the word device, a blank and the opening quote.

\* The blank-free parts of a piece and its blanks.
Atoms(piece) ==
  CASE piece = "device <" -> <<"device", " ", "<">>
    [] piece = " is a " -> <<" ", "is", " ", "a", " ">>
    [] OTHER -> <<piece>>

RECURSIVE Flatten(_)
Flatten(str) == IF str = <<>> THEN <<>> ELSE Atoms(Head(str)) \o Flatten(Tail(str))

\* The first blank-free run that holds a hyphen with something on both sides,
\* or <<>>; word is the run read so far.
RECURSIVE FirstHyphenWord(_, _)
FirstHyphenWord(atoms, word) ==
  LET hyphen == \E i \in 1..Len(word) : word[i] = "fi-8170"
  IN IF atoms = <<>> THEN (IF hyphen THEN word ELSE <<>>)
     ELSE IF Head(atoms) = " "
       THEN (IF hyphen THEN word ELSE FirstHyphenWord(Tail(atoms), <<>>))
     ELSE FirstHyphenWord(Tail(atoms), Append(word, Head(atoms)))

\* devices.push({ id, name: fullName, model: modelMatch ? modelMatch[1] : fullName })
\* with modelMatch = fullName.match(/(\S+-\S+)/)
Device(id, fullName) ==
  LET modelMatch == FirstHyphenWord(Flatten(fullName), <<>>)
  IN [id |-> id, name |-> fullName,
      model |-> IF modelMatch # <<>> THEN modelMatch ELSE Flatten(fullName)]

\* The first position from i on that holds piece c, or 0.
IndexOf(str, c, i) ==
  IF \E k \in i..Len(str) : str[k] = c
    THEN Min({k \in i..Len(str) : str[k] = c})
    ELSE 0

NoMatch == [found |-> FALSE, end |-> 0, id |-> <<>>, name |-> <<>>]

\* The match of the device pattern that begins at position i: the word device,
\* a blank and an opening quote, then the id, which runs to the next closing
\* quote, line ends included, then " is a " and the name, which runs to the end
\* of the line.
MatchAt(str, i) ==
  LET q == IndexOf(str, "'", i + 1)
      nl == IndexOf(str, "\n", q + 2)
      end == IF nl = 0 THEN Len(str) ELSE nl - 1
  IN IF /\ str[i] = "device <"
        /\ q >= i + 2
        /\ q + 2 <= Len(str)
        /\ str[q + 1] = " is a "
        /\ str[q + 2] # "\n"
       THEN [found |-> TRUE, end |-> end, id |-> SubSeq(str, i + 1, q - 1),
             name |-> SubSeq(str, q + 2, end)]
       ELSE NoMatch

\* while ((match = regex.exec(stdout)) !== null), from lastIndex i.
RECURSIVE ParseDevices(_, _)
ParseDevices(str, i) ==
  IF i > Len(str) THEN <<>>
  ELSE LET m == MatchAt(str, i)
       IN IF m.found THEN <<Device(m.id, m.name)>> \o ParseDevices(str, m.end + 1)
                     ELSE ParseDevices(str, i + 1)

\* The promise of a listDevices call.
Pending == [kind |-> "pending", message |-> "", devices |-> <<>>]
Rejects(message) == [kind |-> "rejected", message |-> message, devices |-> <<>>]
Resolves(devices) == [kind |-> "resolved", message |-> "", devices |-> devices]

NoCall == [pc |-> "none", stdout |-> <<>>, stderr |-> {}, code |-> NullCode,
           outcome |-> Pending]

\* What the tool may print at once.
StdoutChunks ==
  {<<"device <", "fi-8170">>, <<"'", " is a ", "FUJITSU", " ", "fi-8170">>,
   <<"'", " is a ", "FUJITSU">>, <<"\n">>, <<"FUJITSU">>}
StderrChunks == {"permission denied", "no SANE devices found"}
SpawnErrorCodes == {"ENOENT", "EACCES"}

----------------------------------------------------------------------------
Init ==
  /\ currentBatchName = NULL
  /\ currentOutputDir = NULL
  /\ cardCount = 0
  /\ processingQueue = 0
  /\ settings = [deviceId |-> "", duplex |-> TRUE, format |-> "png", dpi |-> defaultDpi,
                 scannerBrightness |-> 0, scannerContrast |-> defaultContrast,
                 scannerGamma |-> neutralGamma]
  /\ tasks = <<>>
  /\ conts = <<>>
  /\ starts = {}
  /\ nextBatch = 1
  /\ uiComplete = [b \in Batches |-> 0]
  /\ uiError = [b \in Batches |-> 0]
  /\ uiStartError = [b \in Batches |-> 0]
  /\ scanning = FALSE
  /\ tempDir = NULL
  /\ process = NULL
  /\ pollInterval = NULL
  /\ processedPages = {}
  /\ timers = {}
  /\ mkdtemps = {}
  /\ duplexOf = [b \in Batches |-> FALSE]
  /\ optionsOf = [b \in Batches |-> NoOptions]
  /\ polls = {}
  /\ drain = [b \in Batches |-> [pc |-> "idle", attempt |-> 0, code |-> 0,
                                  processed |-> 0, ldir |-> NULL, poll |-> NoPoll,
                                  quiet |-> 0]]
  /\ proc = [b \in Batches |-> "none"]
  /\ nfiles = [b \in Batches |-> 0]
  /\ ready = [b \in Batches |-> {}]
  /\ dir = [b \in Batches |-> "none"]
  /\ killed = [b \in Batches |-> FALSE]
  /\ argv = [b \in Batches |-> <<>>]
  /\ deviceList = NoCall

----------------------------------------------------------------------------
\* ipcMain.handle('settings:set'): settings = { ...settings, ...newSettings }
SettingsSet(newSettings) ==
  /\ settings' = [f \in DOMAIN settings |->
                    IF f \in DOMAIN newSettings THEN newSettings[f] ELSE settings[f]]
  /\ UNCHANGED <<orchVars, scanVars, starts, nextBatch, uiStartError,
                 processedPages, mkdtemps, duplexOf, optionsOf, polls, drain, proc, argv, deviceList, nfiles,
                 ready, killed>>

\* A faulty variant, for the properties below: the handler does not ask scanner.isScanning().
StartErrorNoScanCheck(batchName) ==
  IF batchName = "" THEN "Invalid batch name"
  ELSE IF settings.deviceId = "" THEN "No scanner selected. Please select a scanner in settings."
  ELSE "none"

\* A faulty variant, for the properties below: the handler does not look at
\* settings.deviceId.
StartErrorNoDeviceCheck(batchName) ==
  IF batchName = "" THEN "Invalid batch name"
  ELSE IF scanning THEN "Scan already in progress"
  ELSE "none"

\* ipcMain.handle('scanner:start'): the three checks, in the order of the code.
StartError(batchName) ==
  IF batchName = "" THEN "Invalid batch name"
  ELSE IF scanning THEN "Scan already in progress"
  ELSE IF settings.deviceId = "" THEN "No scanner selected. Please select a scanner in settings."
  ELSE "none"

\* ipcMain.handle('scanner:start'), up to `await mkdir`: a rejected request
\* changes nothing; an accepted one sets the batch state.
ScannerStart(L, batchName) ==
  \/ /\ StartError(batchName) # "none"
     /\ UNCHANGED vars
  \/ /\ StartError(batchName) = "none"
     /\ nextBatch <= L.batches
     /\ currentBatchName' = nextBatch
     /\ currentOutputDir' = nextBatch
     /\ cardCount' = 0
     /\ processingQueue' = 0
     /\ starts' = starts \cup {nextBatch}
     /\ nextBatch' = nextBatch + 1
     /\ UNCHANGED <<tasks, conts, uiComplete, uiError, scanVars, settings,
                    uiStartError, processedPages, mkdtemps, duplexOf, optionsOf, polls, drain,
                    proc, argv, deviceList, nfiles, ready, killed>>

\* ScannerService.startBatch up to `await mkdtemp`; it throws when a scan is in
\* progress, which the caller's .catch reports as 'scan:error'.
StartBatchCall(b) ==
  IF scanning
    THEN /\ uiStartError' = [uiStartError EXCEPT ![b] = @ + 1]
         /\ UNCHANGED <<scanning, processedPages, mkdtemps, duplexOf, optionsOf>>
    ELSE /\ scanning' = TRUE
         /\ processedPages' = {}
         /\ mkdtemps' = mkdtemps \cup {b}
         /\ duplexOf' = [duplexOf EXCEPT ![b] = settings.duplex]
         /\ optionsOf' = [optionsOf EXCEPT ![b] = scanOptions(settings)]
         /\ UNCHANGED uiStartError

\* 'scanner:start' after mkdir: scanner.startBatch(scanOptions) is called and the
\* handler returns; when mkdir fails the handler rejects with the batch state set.
MkdirDone(b, ok) ==
  /\ b \in starts
  /\ starts' = starts \ {b}
  /\ IF ok THEN StartBatchCall(b)
           ELSE UNCHANGED <<scanning, processedPages, mkdtemps, duplexOf, optionsOf, uiStartError>>
  /\ UNCHANGED <<orchVars, settings, nextBatch, tempDir, process, pollInterval,
                 timers, dir, polls, drain, proc, argv, deviceList, nfiles, ready, killed>>

\* startBatch after mkdtemp: the scratch directory exists, the tool is spawned
\* and the poll timer set.
Spawned(b) ==
  [Scan EXCEPT !.tempDir = b, !.dir[b] = "exists", !.process = b,
               !.pollInterval = b, !.timers = @ \cup {b}]

MkdtempDone(b, ok) ==
  /\ b \in mkdtemps
  /\ mkdtemps' = mkdtemps \ {b}
  /\ IF ok THEN /\ SetScan(Spawned(b))
                /\ proc' = [proc EXCEPT ![b] = "running"]
                /\ argv' = [argv EXCEPT ![b] = ScanArgs(optionsOf[b], duplexOf[b])]
                /\ UNCHANGED deviceList
                /\ UNCHANGED uiStartError
           ELSE /\ uiStartError' = [uiStartError EXCEPT ![b] = @ + 1]
                /\ UNCHANGED <<scanVars, proc, argv, deviceList>>
  /\ UNCHANGED <<orchVars, settings, starts, nextBatch, processedPages, duplexOf, optionsOf,
                 polls, drain, nfiles, ready, killed>>

\* startBatch after mkdtemp when the tool cannot be spawned: the process 'error'
\* event follows at once (cleanup, then emit 'error'); its 'close' comes later.
SpawnFails(b) ==
  /\ b \in mkdtemps
  /\ mkdtemps' = mkdtemps \ {b}
  /\ SetScan(cleanup(Spawned(b)))
  /\ proc' = [proc EXCEPT ![b] = "failed"]
  /\ argv' = [argv EXCEPT ![b] = ScanArgs(optionsOf[b], duplexOf[b])]
  /\ UNCHANGED deviceList
  /\ SetOrch(OnError(Orch, b))
  /\ UNCHANGED <<settings, starts, nextBatch, uiStartError, processedPages,
                 duplexOf, optionsOf, polls, drain, nfiles, ready, killed>>

\* The scan tool creates its next page file (page%04d.png, from 1).
FilesWritten == LET RECURSIVE Sum(_)
                    Sum(b) == IF b = 0 THEN 0 ELSE nfiles[b] + Sum(b - 1)
                IN Sum(MaxBatches)

ProcWrite(L, s, whole) ==
  /\ proc[s] = "running"
  /\ dir[s] = "exists"
  /\ FilesWritten < L.pages
  /\ nfiles' = [nfiles EXCEPT ![s] = @ + 1]
  /\ ready' = IF whole THEN [ready EXCEPT ![s] = @ \cup {nfiles[s] + 1}] ELSE ready
  /\ UNCHANGED <<orchVars, scanVars, settings, starts, nextBatch,
                 uiStartError, processedPages, mkdtemps, duplexOf, optionsOf, polls, drain,
                 proc, argv, deviceList, killed>>

\* A page file has been written in full ("Files may still be writing when
\* scanimage exits"): from now on it can be read.
FileReady(s, f) ==
  /\ f \in 1..nfiles[s]
  /\ f \notin ready[s]
  /\ dir[s] = "exists"
  /\ ready' = [ready EXCEPT ![s] = @ \cup {f}]
  /\ UNCHANGED <<orchVars, scanVars, settings, starts, nextBatch,
                 uiStartError, processedPages, mkdtemps, duplexOf, optionsOf, polls, drain,
                 proc, argv, deviceList, nfiles, killed>>

\* ipcMain.handle('scanner:stop') -> ScannerService.stop
Stop ==
  /\ killed' = IF process # NULL /\ proc[process] = "running"
                 THEN [killed EXCEPT ![process] = TRUE] ELSE killed
  /\ SetScan(cleanup(Scan))
  /\ UNCHANGED <<orchVars, settings, starts, nextBatch, uiStartError,
                 processedPages, mkdtemps, duplexOf, optionsOf, polls, drain, proc, argv, deviceList, nfiles,
                 ready>>

----------------------------------------------------------------------------
\* setInterval(() => { this.checkForNewPages(options.duplex) }, 200): the call is
\* not awaited.  With tempDir null it returns 0 and changes nothing.
FreeId == Min({i \in 1..(Cardinality(polls) + 1) : \A p \in polls : p.id # i})

Tick(L, s) ==
  /\ s \in timers
  /\ Cardinality(polls) < L.polls
  /\ tempDir # NULL
  /\ polls' = polls \cup {NewPoll(FreeId, s, tempDir)}
  /\ UNCHANGED <<orchVars, scanVars, settings, starts, nextBatch,
                 uiStartError, processedPages, mkdtemps, duplexOf, optionsOf, drain, proc, argv, deviceList,
                 nfiles, ready, killed>>

Keep(ps, p, q) == IF q.pc = "done" THEN ps \ {p} ELSE (ps \ {p}) \cup {q}

\* A timer's checkForNewPages: readdir settles.
PollReaddir(p, ok) ==
  /\ p \in polls
  /\ p.pc = "readdir"
  /\ ReaddirCan(p.dir, ok)
  /\ polls' = Keep(polls, p, AfterReaddir(p, ok, processedPages, tempDir))
  /\ UNCHANGED <<orchVars, scanVars, settings, starts, nextBatch,
                 uiStartError, processedPages, mkdtemps, duplexOf, optionsOf, drain, proc, argv, deviceList,
                 nfiles, ready, killed>>

\* A timer's checkForNewPages: readFile settles.
PollRead(p, ok) ==
  /\ p \in polls
  /\ p.pc = "read"
  /\ ReadCan(p, ok)
  /\ processedPages' = Consumed(processedPages, p, ok)
  /\ polls' = Keep(polls, p, AfterRead(p, ok, processedPages, tempDir, FALSE))
  /\ SetOrch(IF ok THEN OnPage(Orch, PageOf(p)) ELSE Orch)
  /\ UNCHANGED <<scanVars, settings, starts, nextBatch, uiStartError,
                 mkdtemps, duplexOf, optionsOf, drain, proc, argv, deviceList, nfiles, ready, killed>>

----------------------------------------------------------------------------
\* A faulty variant, for the properties below: 'complete' is emitted whatever the exit status.
CloseEmitBoth(o, s, code) ==
  IF code = 0 \/ code = NoDocs THEN OnComplete(o, s) ELSE OnComplete(OnError(o, s), s)

\* A faulty variant, for the properties below: only exit status 0 counts as a
\* success, the empty feeder (7) is reported as an error.
CloseEmitZeroOnly(o, s, code) ==
  IF code = 0 THEN OnComplete(o, s) ELSE OnError(o, s)

\* The end of the 'close' handler: the terminal event by exit status, then cleanup.
\* A handler is [pc, code: the exit status, attempt, processed, ldir and poll of
\* waitForRemainingPages, quiet: the attempts in a row before this one that emitted
\* no page].
CloseEmit(o, s, code) ==
  IF code = 0 \/ code = NoDocs THEN OnComplete(o, s) ELSE OnError(o, s)

Finish(s, d, o, sc) ==
  /\ drain' = [drain EXCEPT ![s] = [d EXCEPT !.pc = "done", !.poll = NoPoll,
                                           !.ldir = NULL, !.processed = 0,
                                           !.attempt = 0, !.quiet = 0]]
  /\ SetOrch(CloseEmit(o, s, d.code))
  /\ SetScan(cleanup(sc))

\* process.on('close'): the interval is cleared and waitForRemainingPages begins;
\* without a scratch directory it returns at once.
ProcClose(L, s, code) ==
  /\ \/ proc[s] = "running" /\ code \in L.codes
     \/ proc[s] = "failed" /\ code = SpawnFailCode
  /\ proc' = [proc EXCEPT ![s] = "closed"]
  /\ LET d == [drain[s] EXCEPT !.code = code]
         sc == ClearPoll(Scan)
     IN IF sc.tempDir = NULL
          THEN Finish(s, d, Orch, sc)
          ELSE /\ drain' = [drain EXCEPT ![s] = [d EXCEPT !.pc = "delay"]]
               /\ SetScan(sc)
               /\ UNCHANGED orchVars
  /\ UNCHANGED <<settings, starts, nextBatch, uiStartError, processedPages,
                 mkdtemps, duplexOf, optionsOf, polls, nfiles, ready, killed, argv, deviceList>>

\* After checkForNewPages returned `n`: `await readdir(this.tempDir)`, which
\* rejects at once when tempDir is null ("Directory gone, we're done").
AfterPoll(s, d, n, o, sc) ==
  IF sc.tempDir = NULL
    THEN Finish(s, d, o, sc)
    ELSE /\ drain' = [drain EXCEPT ![s] = [d EXCEPT !.pc = "listing", !.poll = NoPoll,
                                                    !.processed = n,
                                                    !.ldir = sc.tempDir]]
         /\ SetOrch(o)
         /\ SetScan(sc)

\* waitForRemainingPages: the retry delay has passed; checkForNewPages is called.
DrainDelay(s) ==
  /\ drain[s].pc = "delay"
  /\ IF tempDir = NULL
       THEN AfterPoll(s, drain[s], 0, Orch, Scan)
       ELSE /\ drain' = [drain EXCEPT ![s].pc = "poll",
                                      ![s].poll = NewPoll(0, s, tempDir)]
            /\ UNCHANGED <<orchVars, scanVars>>
  /\ UNCHANGED <<settings, starts, nextBatch, uiStartError, processedPages,
                 mkdtemps, duplexOf, optionsOf, polls, proc, argv, deviceList, nfiles, ready, killed>>

\* The drain's checkForNewPages: readdir settles.
DrainReaddir(s, ok) ==
  /\ drain[s].pc = "poll"
  /\ drain[s].poll.pc = "readdir"
  /\ ReaddirCan(drain[s].poll.dir, ok)
  /\ LET q == AfterReaddir(drain[s].poll, ok, processedPages, tempDir)
     IN IF q.pc = "done"
          THEN AfterPoll(s, drain[s], q.n, Orch, Scan)
          ELSE /\ drain' = [drain EXCEPT ![s].poll = q]
               /\ UNCHANGED <<orchVars, scanVars>>
  /\ UNCHANGED <<settings, starts, nextBatch, uiStartError, processedPages,
                 mkdtemps, duplexOf, optionsOf, polls, proc, argv, deviceList, nfiles, ready, killed>>

\* The drain's checkForNewPages: readFile settles.
DrainRead(s, ok) ==
  /\ drain[s].pc = "poll"
  /\ drain[s].poll.pc = "read"
  /\ ReadCan(drain[s].poll, ok)
  /\ processedPages' = Consumed(processedPages, drain[s].poll, ok)
  /\ LET p == drain[s].poll
         q == AfterRead(p, ok, processedPages, tempDir, TRUE)
         o == IF ok THEN OnPage(Orch, PageOf(p)) ELSE Orch
     IN IF q.pc = "done"
          THEN AfterPoll(s, drain[s], q.n, o, Scan)
          ELSE /\ drain' = [drain EXCEPT ![s].poll = q]
               /\ SetOrch(o)
               /\ UNCHANGED scanVars
  /\ UNCHANGED <<settings, starts, nextBatch, uiStartError, mkdtemps, duplexOf, optionsOf,
                 polls, proc, argv, deviceList, nfiles, ready, killed>>

\* A faulty variant, for the properties below: the loop has no attempt bound.
DrainGoesOnUnbounded(d, ok, pp) ==
  /\ ok
  /\ nfiles[d.ldir] # Cardinality(pp)
  /\ d.processed > 0 \/ d.attempt < giveUpAttempt

\* waitForRemainingPages: the listing readdir settles; the loop ends, or goes on
\* to the next attempt.
DrainGoesOn(d, ok, pp) ==
  /\ ok
  /\ nfiles[d.ldir] # Cardinality(pp)
  /\ d.processed > 0 \/ d.attempt < giveUpAttempt
  /\ d.attempt + 1 < maxRetries

\* The attempts in a row, this one included, that emitted no page.
Quiet(d) == IF d.processed > 0 THEN 0 ELSE d.quiet + 1

DrainListing(s, ok) ==
  /\ drain[s].pc = "listing"
  /\ ReaddirCan(drain[s].ldir, ok)
  /\ IF DrainGoesOn(drain[s], ok, processedPages)
       THEN /\ drain' = [drain EXCEPT ![s].pc = "delay", ![s].attempt = @ + 1,
                                      ![s].processed = 0, ![s].ldir = NULL,
                                      ![s].quiet = Quiet(drain[s])]
            /\ UNCHANGED <<orchVars, scanVars>>
       ELSE Finish(s, drain[s], Orch, Scan)
  /\ UNCHANGED <<settings, starts, nextBatch, uiStartError, processedPages,
                 mkdtemps, duplexOf, optionsOf, polls, proc, argv, deviceList, nfiles, ready, killed>>

----------------------------------------------------------------------------
\* The catch of the page reaction: a page-scoped 'scan:error' is sent, its
\* message naming the card number and the side; what processCard had returned
\* is out of scope.
PageFailed(o, k) ==
  [o EXCEPT !.tasks[k].st = "done", !.tasks[k].res = "failed",
            !.tasks[k].errors = Append(@, <<o.tasks[k].cardNumber, o.tasks[k].side>>),
            !.tasks[k].filename = <<>>, !.tasks[k].region = NoRegion,
            !.tasks[k].validation = NoValidation]

\* A faulty variant, for the properties below: a page whose crop is judged
\* invalid is refused.
ProcessedIfValid(o, k, region) ==
  LET t == o.tasks[k]
      v == validateCrop(region, t.dpi)
      p == [o EXCEPT !.tasks[k].validation = v, !.tasks[k].region = region,
                     !.tasks[k].filename = generateFilename(t.cardNumber, t.side, t.format)]
  IN IF v.valid THEN [p EXCEPT !.tasks[k].st = "writeFile"] ELSE PageFailed(p, k)

\* processCard resolved, autoCrop having found `region`: the page reaction goes
\* on to writeFile with the filename; the validation is only logged.
Processed(o, k, region) ==
  LET t == o.tasks[k]
  IN [o EXCEPT !.tasks[k].st = "writeFile",
               !.tasks[k].region = region,
               !.tasks[k].validation = validateCrop(region, t.dpi),
               !.tasks[k].filename = generateFilename(t.cardNumber, t.side, t.format)]

\* The page reaction of tasks[k]: processCard settles.
ProcessCardDone(L, k, ok, region) ==
  /\ k \in 1..Len(tasks)
  /\ tasks[k].st = "processCard"
  /\ region \in L.regions
  /\ SetOrch(Flush(IF ok THEN Processed(Orch, k, region) ELSE PageFailed(Orch, k)))
  /\ UNCHANGED <<scanVars, settings, starts, nextBatch, uiStartError,
                 processedPages, mkdtemps, duplexOf, optionsOf, polls, drain, proc, argv, deviceList, nfiles,
                 ready, killed>>

\* A faulty variant, for the properties below: a Front page increments the count.
CountAfterIncrement(count, t) == IF t.side = "F" THEN count + 1 ELSE count

\* if (page.side === 'F') { cardCount = page.cardNumber }
CountAfter(count, t) == IF t.side = "F" THEN t.cardNumber ELSE count

\* A faulty variant, for the properties below: the output path is built from
\* currentOutputDir when the page's turn comes.
WriteDirCurrent(o, k) == o.currentOutputDir

\* join(outputDir, processed.filename): outputDir was captured by the page event.
WriteDir(o, k) == o.tasks[k].outputDir

\* The page reaction after writeFile: the file is in WriteDir, the card count is
\* updated and 'scan:progress' sent with it.
Written(o, k) ==
  LET c == CountAfter(o.cardCount, o.tasks[k])
  IN [o EXCEPT !.cardCount = c, !.tasks[k].st = "done", !.tasks[k].res = "written",
               !.tasks[k].current = c, !.tasks[k].progress = @ + 1,
               !.tasks[k].dest = WriteDir(o, k)]

\* The page reaction of tasks[k]: writeFile settles.
WriteFileDone(k, ok) ==
  /\ k \in 1..Len(tasks)
  /\ tasks[k].st = "writeFile"
  /\ SetOrch(Flush(IF ok THEN Written(Orch, k) ELSE PageFailed(Orch, k)))
  /\ UNCHANGED <<scanVars, settings, starts, nextBatch, uiStartError,
                 processedPages, mkdtemps, duplexOf, optionsOf, polls, drain, proc, argv, deviceList, nfiles,
                 ready, killed>>

----------------------------------------------------------------------------
\* startBatch(options): the closures of a session capture options.duplex, before
\* any of its pages is emitted.
Options(s, duplex) ==
  /\ \A k \in 1..Len(tasks) : tasks[k].sess # s
  /\ duplexOf' = [duplexOf EXCEPT ![s] = duplex]
  /\ UNCHANGED <<orchVars, scanVars, settings, starts, nextBatch, uiStartError,
                 processedPages, mkdtemps, optionsOf, polls, drain, proc, argv, deviceList, nfiles, ready,
                 killed>>

\* checkForNewPages after a successful read of page n: getCardInfo, then
\* this.emit('page', ...).
EmitPage(s, n) ==
  /\ Len(tasks) < MaxMapped
  /\ SetOrch(OnPage(Orch, PageOf([NoPoll EXCEPT !.sess = s, !.cur = n, !.rdir = s])))
  /\ UNCHANGED <<scanVars, settings, starts, nextBatch, uiStartError,
                 processedPages, mkdtemps, duplexOf, optionsOf, polls, drain, proc, argv, deviceList, nfiles,
                 ready, killed>>

----------------------------------------------------------------------------
OtherVars ==
  <<orchVars, scanVars, settings, starts, nextBatch, uiStartError, processedPages,
    mkdtemps, duplexOf, optionsOf, polls, drain, proc, argv, nfiles, ready, killed>>

\* listDevices(): spawn('scanimage', ['-L']).  A call is made when no other is
\* under way.
ListDevices ==
  /\ deviceList.pc \in {"none", "closed"}
  /\ deviceList' = [NoCall EXCEPT !.pc = "running"]
  /\ UNCHANGED OtherVars

\* proc.stdout.on('data'): stdout += data
StdoutData(chunk) ==
  /\ deviceList.pc = "running"
  /\ Len(deviceList.stdout) + Len(chunk) <= MaxOut
  /\ deviceList' = [deviceList EXCEPT !.stdout = @ \o chunk]
  /\ UNCHANGED OtherVars

\* proc.stderr.on('data'): stderr += data
StderrData(text) ==
  /\ deviceList.pc = "running"
  /\ deviceList' = [deviceList EXCEPT !.stderr = @ \cup {text}]
  /\ UNCHANGED OtherVars

\* proc.on('error'): the tool could not be spawned, so it printed nothing.
ListError(code) ==
  /\ deviceList.pc = "running"
  /\ deviceList.stdout = <<>> /\ deviceList.stderr = {}
  /\ deviceList' =
       [deviceList EXCEPT
          !.pc = "failed",
          !.outcome = IF code = "ENOENT"
                        THEN Rejects("scanimage not found. Install sane-utils package.")
                        ELSE Rejects(code)]
  /\ UNCHANGED OtherVars

\* proc.on('close'): reject for a permission problem, else parse and resolve; a
\* promise that was rejected by 'error' stays rejected.
ListClose(code) ==
  /\ deviceList.pc \in {"running", "failed"}
  /\ deviceList.pc = "failed" => code # 0
  /\ deviceList' =
       [deviceList EXCEPT
          !.pc = "closed",
          !.code = code,
          !.outcome =
            IF @.kind # "pending" THEN @
            ELSE IF code # 0 /\ "permission denied" \in deviceList.stderr
              THEN Rejects("Permission denied. Add your user to the \"scanner\" group")
            ELSE Resolves(ParseDevices(deviceList.stdout, 1))]
  /\ UNCHANGED OtherVars

----------------------------------------------------------------------------
Step(L) ==
  \/ \E new \in L.settings : SettingsSet(new)
  \/ \E n \in BatchNames : ScannerStart(L, n)
  \/ \E b \in Batches, ok \in BOOLEAN : MkdirDone(b, ok)
  \/ \E b \in Batches, ok \in BOOLEAN : MkdtempDone(b, ok)
  \/ \E b \in Batches : SpawnFails(b)
  \/ \E s \in Batches, whole \in L.whole : ProcWrite(L, s, whole)
  \/ \E s \in Batches : Tick(L, s)
  \/ \E p \in polls, ok \in BOOLEAN : PollReaddir(p, ok)
  \/ \E p \in polls, ok \in BOOLEAN : PollRead(p, ok)
  \/ \E s \in Batches, code \in L.codes \cup {SpawnFailCode} : ProcClose(L, s, code)
  \/ \E s \in Batches : DrainDelay(s)
  \/ \E s \in Batches, ok \in BOOLEAN : DrainReaddir(s, ok)
  \/ \E s \in Batches, ok \in BOOLEAN : DrainRead(s, ok)
  \/ \E s \in Batches, ok \in BOOLEAN : DrainListing(s, ok)
  \/ \E k \in 1..Len(tasks), ok \in BOOLEAN, region \in L.regions :
       ProcessCardDone(L, k, ok, region)
  \/ \E k \in 1..Len(tasks), ok \in BOOLEAN : WriteFileDone(k, ok)

\* Several batches, each started when the one before has ended its capture; whole
\* page files; no stop request.
Next == Step(Lim)
Spec == Init /\ [][Next]_vars

\* One batch, with stop requests and page files seen while they are written.
NextBatch ==
  \/ Step(LimBatch)
  \/ Stop
  \/ \E s \in Batches, f \in 1..LimBatch.pages : FileReady(s, f)
SpecBatch == Init /\ [][NextBatch]_vars

\* The page pipeline of one batch: pages with any of the sequence numbers
\* PageSeqs are emitted, autoCrop finds any of the Regions, the renderer changes
\* output format.
NextPages ==
  \/ \E new \in LimPages.settings : SettingsSet(new)
  \/ \E n \in BatchNames : ScannerStart(LimPages, n)
  \/ \E b \in Batches, ok \in BOOLEAN : MkdirDone(b, ok)
  \/ \E duplex \in BOOLEAN : Options(1, duplex)
  \/ \E n \in PageSeqs : Len(tasks) < PagesMax /\ EmitPage(1, n)
  \/ \E k \in 1..Len(tasks), ok \in BOOLEAN, region \in LimPages.regions :
       ProcessCardDone(LimPages, k, ok, region)
  \/ \E k \in 1..Len(tasks), ok \in BOOLEAN : WriteFileDone(k, ok)
SpecPages == Init /\ [][NextPages]_vars

\* One start of the scan tool under any scanner colour settings.
NextArgs ==
  \/ \E new \in LimArgs.settings : SettingsSet(new)
  \/ \E n \in BatchNames : ScannerStart(LimArgs, n)
  \/ \E b \in Batches, ok \in BOOLEAN : MkdirDone(b, ok)
  \/ \E b \in Batches, ok \in BOOLEAN : MkdtempDone(b, ok)
  \/ \E b \in Batches : SpawnFails(b)
SpecArgs == Init /\ [][NextArgs]_vars

\* Calls of listDevices, one after another.
NextList ==
  \/ ListDevices
  \/ \E chunk \in StdoutChunks : StdoutData(chunk)
  \/ \E text \in StderrChunks : StderrData(text)
  \/ \E code \in SpawnErrorCodes : ListError(code)
  \/ \E code \in {0, 1} : ListClose(code)
SpecList == Init /\ [][NextList]_vars

\* Batches of at most one page in all, under the assumptions that a scan process
\* that runs closes in the end, that file system calls and timers of the
\* scanner return, and that processCard and writeFile settle.
NextLive == Step(LimLive)
Settles ==
  \/ \E b \in Batches, ok \in BOOLEAN : MkdirDone(b, ok)
  \/ \E b \in Batches, ok \in BOOLEAN : MkdtempDone(b, ok)
  \/ \E b \in Batches : SpawnFails(b)
  \/ \E p \in polls, ok \in BOOLEAN : PollReaddir(p, ok)
  \/ \E p \in polls, ok \in BOOLEAN : PollRead(p, ok)
  \/ \E s \in Batches : DrainDelay(s)
  \/ \E s \in Batches, ok \in BOOLEAN : DrainReaddir(s, ok)
  \/ \E s \in Batches, ok \in BOOLEAN : DrainRead(s, ok)
  \/ \E s \in Batches, ok \in BOOLEAN : DrainListing(s, ok)
  \/ \E k \in 1..Len(tasks), ok \in BOOLEAN, region \in LimLive.regions :
       ProcessCardDone(LimLive, k, ok, region)
  \/ \E k \in 1..Len(tasks), ok \in BOOLEAN : WriteFileDone(k, ok)
Closes ==
  \E s \in Batches, code \in LimLive.codes \cup {SpawnFailCode} : ProcClose(LimLive, s, code)
Fairness == WF_vars(Closes) /\ WF_vars(Settles)
SpecLive == Init /\ [][NextLive]_vars /\ Fairness

\* Several batches with stop requests at any moment; the tool writes no page.
NextStop ==
  \/ \E new \in LimStop.settings : SettingsSet(new)
  \/ \E n \in BatchNames : ScannerStart(LimStop, n)
  \/ \E b \in Batches, ok \in BOOLEAN : MkdirDone(b, ok)
  \/ \E b \in Batches, ok \in BOOLEAN : MkdtempDone(b, ok)
  \/ \E b \in Batches : SpawnFails(b)
  \/ Stop
  \/ \E s \in Batches : Tick(LimStop, s)
  \/ \E p \in polls, ok \in BOOLEAN : PollReaddir(p, ok)
  \/ \E s \in Batches, code \in LimStop.codes \cup {SpawnFailCode} :
       ProcClose(LimStop, s, code)
  \/ \E s \in Batches : DrainDelay(s)
  \/ \E s \in Batches, ok \in BOOLEAN : DrainReaddir(s, ok)
  \/ \E s \in Batches, ok \in BOOLEAN : DrainListing(s, ok)
SpecStop == Init /\ [][NextStop]_vars

\* The close-time drain of one batch with many pages: the tool writes its files
\* one after the other, no timer poll runs and the first page is still being
\* processed.
NextDrain ==
  \/ \E new \in LimDrain.settings : SettingsSet(new)
  \/ \E n \in BatchNames : ScannerStart(LimDrain, n)
  \/ \E b \in Batches, ok \in BOOLEAN : MkdirDone(b, ok)
  \/ \E b \in Batches, ok \in BOOLEAN : MkdtempDone(b, ok)
  \/ \E s \in Batches : ProcWrite(LimDrain, s, FALSE)
  \/ \E s \in Batches : FileReady(s, Cardinality(ready[s]) + 1)
  \/ \E s \in Batches, code \in LimDrain.codes : ProcClose(LimDrain, s, code)
  \/ \E s \in Batches : DrainDelay(s)
  \/ \E s \in Batches, ok \in BOOLEAN : DrainReaddir(s, ok)
  \/ \E s \in Batches, ok \in BOOLEAN : DrainRead(s, ok)
  \/ \E s \in Batches, ok \in BOOLEAN : DrainListing(s, ok)
SpecDrain == Init /\ [][NextDrain]_vars

\* The page mapping alone: sessions with either value of options.duplex emit
\* pages of any sequence number.
NextMap ==
  \/ \E s \in Batches, duplex \in BOOLEAN : Options(s, duplex)
  \/ \E s \in Batches, n \in 1..MaxSeq : EmitPage(s, n)
SpecMap == Init /\ [][NextMap]_vars

----------------------------------------------------------------------------
\* What the properties below read off the state.

\* Page events i and j were handled for the same batch.
SameBatch(i, j) ==
  /\ tasks[i].batch # NULL
  /\ tasks[i].batch = tasks[j].batch

\* The batch state of the orchestrator.
BatchState == <<currentBatchName, currentOutputDir, cardCount, processingQueue>>

\* The highest card number among the Front pages of batch b written so far.
HighestFront(b) ==
  Max({0} \cup {tasks[k].cardNumber : k \in {x \in 1..Len(tasks) :
                   /\ tasks[x].batch = b
                   /\ tasks[x].side = "F"
                   /\ tasks[x].res = "written"}})

\* The batch-ending events sent to the renderer for session s.
Terminal(s) == uiComplete[s] + uiError[s]

\* The 'close' handler of session s has returned and its reset reactions have run.
Settled(s) ==
  /\ proc[s] = "closed"
  /\ drain[s].pc = "done"
  /\ \A i \in 1..Len(conts) : conts[i].sess = s => conts[i].ran

\* The scanner events of kind `kind` that session s has emitted.
Emitted(s, kind) ==
  Cardinality({i \in 1..Len(conts) : conts[i].sess = s /\ conts[i].kind = kind})

\* The 'error' events of session s that came from the process 'error' handler (a
\* tool that could not be spawned), not from 'close'.
SpawnErrors(s) ==
  IF proc[s] = "failed" \/ drain[s].code = SpawnFailCode THEN 1 ELSE 0

\* The 'close' handler of session s has emitted its event.
Closed(s) == drain[s].pc = "done"

\* The checkForNewPages calls in flight: those of the timers and those of the
\* 'close' handlers.
Calls == polls \cup {drain[s].poll : s \in {b \in Batches : drain[b].pc = "poll"}}

\* Call p as it is after the step, NoPoll if it has returned.
After(p) ==
  IF \E q \in Calls' : q.id = p.id /\ q.sess = p.sess
    THEN CHOOSE q \in Calls' : q.id = p.id /\ q.sess = p.sess
    ELSE NoPoll

\* The step resumes call p: its readdir or its readFile has settled.
Resumes(p) == After(p) # p

\* The step emits page f as its only page event.
Emits(f) ==
  /\ Len(tasks') = Len(tasks) + 1
  /\ tasks'[Len(tasks')].pageNumber = f

\* Nothing is in progress: no handler is suspended, no scan process lives, no
\* page is queued and every reset reaction has run.
Quiescent ==
  /\ starts = {}
  /\ mkdtemps = {}
  /\ polls = {}
  /\ \A s \in Batches : proc[s] \in {"none", "closed"} /\ drain[s].pc \in {"idle", "done"}
  /\ \A k \in 1..Len(tasks) : tasks[k].st = "done"
  /\ \A i \in 1..Len(conts) : conts[i].ran

\* The step runs a reset reaction (which sets the card count to 0).
ResetRuns == \E i \in 1..Len(conts) : ~conts[i].ran /\ conts'[i].ran

\* The step ends the processing of page reaction k with result r.
Ends(k, r) == tasks[k].res = "none" /\ tasks'[k].res = r

\* The pages of session s emitted before reset reaction i was registered.
EmittedBefore(i) ==
  {k \in 1..conts[i].emitted : tasks[k].sess = conts[i].sess}

----------------------------------------------------------------------------
\* C1: strict-order queue.  Of two pages of one batch, the page emitted later
\* does not begin processCard, its write or any event before the write and the
\* progress (or page-error) event of the earlier page have completed.
C1_StrictOrder ==
  \A i, j \in 1..Len(tasks) :
    (i < j /\ SameBatch(i, j) /\ tasks[j].st # "queued") => tasks[i].st = "done"

\* Two pages of a batch, the first failed or written, the second begun after it.
C1_Witness ==
  \E i, j \in 1..Len(tasks) :
    /\ i < j
    /\ SameBatch(i, j)
    /\ tasks[i].res = "failed"
    /\ tasks[j].st = "writeFile"

\* C2 (as stated): within a batch, a write never completes after the write of a
\* page with a higher sequence number, whatever the order of discovery.
C2_WritesBySequenceNumber ==
  [][\A k \in 1..Len(tasks) :
       (tasks[k].res # "written" /\ tasks'[k].res = "written") =>
         \A i \in 1..Len(tasks) :
           (tasks[i].res = "written" /\ SameBatch(i, k) /\ tasks[i].sess = tasks[k].sess) =>
             tasks[i].pageNumber <= tasks[k].pageNumber]_vars

\* C3 (as stated): within one capture session no page sequence number is emitted
\* as a 'page' event more than once, over the timer polls and the drain polls.
C3_EmittedOnce ==
  \A i, j \in 1..Len(tasks) :
    (i < j /\ tasks[i].sess = tasks[j].sess) => tasks[i].pageNumber # tasks[j].pageNumber

\* C4 (as stated): during a batch the card count equals the highest card number
\* among the Front pages of the batch processed successfully so far (0 if none),
\* so it never decreases.
C4_CardCount ==
  currentBatchName # NULL => cardCount = HighestFront(currentBatchName)

\* C5 (amended): while scanner.isScanning() is true, a 'scanner:start' request
\* with a valid batch name fails with 'Scan already in progress' and cannot change
\* currentBatchName, currentOutputDir, cardCount or processingQueue.
C5_StartWhileScanning ==
  scanning =>
    \A n \in BatchNames \ {""} :
      /\ StartError(n) = "Scan already in progress"
      /\ ~ENABLED (ScannerStart(Lim, n) /\ BatchState' # BatchState)

\* A batch is running, with a page in the queue, when a start request would come.
C5_Witness ==
  /\ scanning
  /\ currentBatchName # NULL
  /\ \E k \in 1..Len(tasks) : tasks[k].st = "processCard"
  /\ StartError("batch") = "Scan already in progress"

\* C5 (as stated): while scanner.isScanning() is true every 'scanner:start'
\* request fails with 'Scan already in progress'.
C5_AnyRequest ==
  scanning => \A n \in BatchNames : StartError(n) = "Scan already in progress"

\* C6 (as stated): between the scanner's 'complete' / 'error' event of a batch and
\* the reset that follows its processing queue, every 'scanner:start' request is
\* rejected.
C6_RejectedWhileDraining ==
  (\E i \in 1..Len(conts) : ~conts[i].ran) =>
    \A n \in BatchNames : StartError(n) # "none"

\* C7: a session whose process stop() has killed ends with at most one batch-
\* ending event, and with exactly one once its 'close' handler has returned and
\* the processing queue has emptied, whatever exit status the process reports.
C7_OneTerminalEvent ==
  \A s \in Batches :
    killed[s] => /\ Terminal(s) <= 1
                 /\ Settled(s) => Terminal(s) = 1

\* A killed session with pages, settled, that ended with 'scan:complete'.
C7_Witness ==
  \E s \in Batches :
    /\ killed[s]
    /\ Settled(s)
    /\ uiComplete[s] = 1
    /\ \E k \in 1..Len(tasks) : tasks[k].sess = s /\ tasks[k].res = "written"

\* C8 (as stated): once 'scan:complete' of a batch has been sent, every page the
\* scanner emitted for the batch has finished processing.
C8_CompleteAfterPages ==
  \A s \in Batches :
    uiComplete[s] >= 1 =>
      \A k \in 1..Len(tasks) : tasks[k].sess = s => tasks[k].st = "done"

\* C9 (as stated): when the batch-level 'scan:error' of a failed session is sent,
\* every page of the batch emitted before it has finished processing.
C9_FailedAfterDrain ==
  \A i \in 1..Len(conts) :
    conts[i].kind = "error" => \A k \in EmittedBefore(i) : tasks[k].st = "done"

\* C10 (as stated, where no session has reported two terminal events): the reset
\* that follows a scanner 'error' runs only when every page of the batch queued
\* before the error has finished.
C10_ResetAfterPages ==
  (\A i, j \in 1..Len(conts) : conts[i].sess = conts[j].sess => i = j) =>
    \A i \in 1..Len(conts) :
      (conts[i].kind = "error" /\ conts[i].ran) =>
        \A k \in EmittedBefore(i) : tasks[k].st = "done"

\* C11 (as stated): a page whose processing failed (processCard or writeFile
\* threw, a page-scoped 'scan:error' was sent) is never emitted again by its
\* session, and so never processed again.
C11_FailedNotReEmitted ==
  [][\A k \in 1..Len(tasks) :
       tasks[k].res = "failed" =>
         \A j \in (Len(tasks) + 1)..Len(tasks') :
           tasks'[j].sess = tasks[k].sess =>
             tasks'[j].pageNumber # tasks[k].pageNumber]_vars

\* C12 (as stated): every page that has been processed, whether it was written
\* or failed, has caused exactly one 'scan:progress' event.
C12_ProgressPerPage ==
  \A k \in 1..Len(tasks) :
    tasks[k].res \in {"written", "failed"} => tasks[k].progress = 1

\* C13: when the scan process of a session closes, the session emits 'complete'
\* if and only if the exit status is 0 or 7, and 'error' for every other status
\* (null included); one close never emits both, and nothing is emitted for a
\* close before the handler's end.
C13_EventByExitStatus ==
  \A s \in Batches :
    LET ok == drain[s].code \in {0, NoDocs}
    IN /\ Emitted(s, "complete") = IF Closed(s) /\ ok THEN 1 ELSE 0
       /\ Emitted(s, "error") = SpawnErrors(s) + IF Closed(s) /\ ~ok THEN 1 ELSE 0

\* A session that emitted a page, whose process closed with status 7 (empty
\* feeder) and which emitted 'complete'.
C13_Witness ==
  \E s \in Batches :
    /\ Closed(s)
    /\ drain[s].code = NoDocs
    /\ Emitted(s, "complete") = 1
    /\ \E k \in 1..Len(tasks) : tasks[k].sess = s

\* C14: duplex mapping.  A page with sequence number n of a session without
\* duplex is (card n, Front); with duplex it is (card ceil(n / 2), Front if n is
\* odd, Back if n is even), so that each card number comes from exactly one Front
\* and exactly one Back sequence number.
C14_DuplexMapping ==
  /\ \A k \in 1..Len(tasks) :
       LET n == tasks[k].pageNumber
           c == tasks[k].cardNumber
       IN IF duplexOf[tasks[k].sess]
            THEN /\ 2 * c >= n
                 /\ 2 * (c - 1) < n
                 /\ tasks[k].side = IF \E m \in 0..n : n = 2 * m + 1 THEN "F" ELSE "B"
            ELSE c = n /\ tasks[k].side = "F"
  /\ \A c \in 1..(MaxSeq \div 2), side \in {"F", "B"} :
       Cardinality({n \in 1..MaxSeq :
                      getCardInfo(n, TRUE) = [cardNumber |-> c, side |-> side]}) = 1

\* Pages 3 and 4 of a duplex session were emitted as card 2 Front and card 2 Back,
\* and page 3 of a session without duplex as card 3 Front.
C14_Witness ==
  \E i, j, k \in 1..Len(tasks) :
    /\ duplexOf[tasks[i].sess] /\ tasks[j].sess = tasks[i].sess
    /\ tasks[i].pageNumber = 3 /\ tasks[i].cardNumber = 2 /\ tasks[i].side = "F"
    /\ tasks[j].pageNumber = 4 /\ tasks[j].cardNumber = 2 /\ tasks[j].side = "B"
    /\ ~duplexOf[tasks[k].sess]
    /\ tasks[k].pageNumber = 3 /\ tasks[k].cardNumber = 3 /\ tasks[k].side = "F"

C16_DrainBounded ==
  \A s \in Batches :
    /\ drain[s].attempt < maxRetries
    /\ Closed(s) =>
         IF drain[s].code \in {0, NoDocs}
           THEN Emitted(s, "complete") = 1 /\ Emitted(s, "error") = 0
           ELSE Emitted(s, "complete") = 0 /\ Emitted(s, "error") = 1 + SpawnErrors(s)

\* The drain is in its last attempt, which emitted a page, with pages of the
\* directory still unread.
C16_Witness ==
  \E s \in Batches :
    /\ drain[s].pc = "listing"
    /\ drain[s].attempt = maxRetries - 1
    /\ drain[s].processed > 0
    /\ dir[s] = "exists"
    /\ Cardinality(processedPages) < nfiles[s]

\* C17 (as stated): the close-time drain gives up before its attempt bound, with
\* page files of the directory still unread, only after at least two attempts in
\* a row that emitted no page; one attempt without a new page that follows an
\* attempt which emitted pages does not end it.
C17_GivesUpAfterQuietAttempts ==
  [][\A s \in Batches :
       (/\ drain[s].pc = "listing"
        /\ Closed(s)'
        /\ dir[drain[s].ldir] = "exists"
        /\ nfiles[drain[s].ldir] # Cardinality(processedPages)
        /\ drain[s].attempt + 1 < maxRetries) =>
         (drain[s].processed = 0 /\ drain[s].quiet >= 1)]_vars

\* C18 (as stated): when the close-time drain stops early, because the listing
\* has as many page files as there are consumed pages, every page file present in
\* the scratch directory at that listing has been emitted as a page event.
C18_EarlyStopAllEmitted ==
  [][\A s \in Batches :
       (/\ drain[s].pc = "listing"
        /\ Closed(s)'
        /\ dir[drain[s].ldir] = "exists"
        /\ nfiles[drain[s].ldir] = Cardinality(processedPages)) =>
         \A f \in 1..nfiles[drain[s].ldir] :
           \E k \in 1..Len(tasks) :
             tasks[k].src = drain[s].ldir /\ tasks[k].pageNumber = f]_vars

\* C19 (as stated): stop() loses no captured page.  Once the batch-ending event
\* of a session that stop() has killed is sent, every page file that was
\* completely written to its scratch directory before the stop has been emitted
\* and processed (written to the output directory, or reported as a page error).
C19_StopKeepsPages ==
  \A s \in Batches :
    (killed[s] /\ Terminal(s) >= 1) =>
      \A f \in ready[s] :
        \E k \in 1..Len(tasks) :
          /\ tasks[k].src = s
          /\ tasks[k].pageNumber = f
          /\ tasks[k].res \in {"written", "failed"}

\* C20 (as stated): when a capture session has ended (the 'close' handler of its
\* process has run cleanup), removal of that session's scratch directory has
\* been requested and its poll timer is cleared.
C20_EndedSessionCleaned ==
  \A s \in Batches :
    Closed(s) => dir[s] # "exists" /\ s \notin timers

\* C21: every output file of a page is written under the output directory of
\* the batch that was current when the page was emitted, even when the batch
\* state has been reset or a new batch started before the page's turn.
C21_WrittenUnderOwnBatch ==
  \A k \in 1..Len(tasks) :
    tasks[k].res = "written" =>
      /\ tasks[k].batch # NULL
      /\ tasks[k].dest = tasks[k].batch

\* A page of batch 1 was written, under directory 1, after batch 2 had been
\* started: batch 2 is current, none of its pages is written, and the card count
\* is the one the page of batch 1 has set.
C21_Witness ==
  /\ currentBatchName = 2
  /\ cardCount # 0
  /\ \A j \in 1..Len(tasks) : tasks[j].batch = 2 => tasks[j].res # "written"
  /\ \E k \in 1..Len(tasks) :
       /\ tasks[k].batch = 1
       /\ tasks[k].res = "written"
       /\ tasks[k].dest = 1
       /\ tasks[k].cardNumber = cardCount

\* C22 (as stated): after a batch-ending error (the scratch directory could not
\* be created, the tool could not be spawned, or the capture ended with a failure
\* status), once nothing is in progress any more, the system is idle:
\* isScanning() is false, the batch state is cleared and a 'scanner:start' with a
\* valid name and device would be accepted.
C22_IdleAfterBatchError ==
  (Quiescent /\ \E b \in Batches : uiStartError[b] + uiError[b] >= 1) =>
    /\ ~scanning
    /\ BatchState = <<NULL, NULL, 0, 0>>
    /\ StartError("batch") = "none"

\* C23: a 'scanner:start' request with an empty batch name, or made while no
\* device id is configured, fails with an error, starts no capture session and
\* changes no batch state; an accepted request is acknowledged when startBatch
\* has been called, while its capture session is still being set up.
C23_InvalidStartRejected ==
  /\ \A n \in BatchNames :
       (n = "" \/ settings.deviceId = "") =>
         /\ StartError(n) # "none"
         /\ ~ENABLED (ScannerStart(LimStop, n) /\
                       <<BatchState, starts, mkdtemps, scanning, nextBatch>>' #
                       <<BatchState, starts, mkdtemps, scanning, nextBatch>>)
  /\ \A b \in mkdtemps :
       b \notin starts /\ proc[b] = "none" /\ drain[b].pc = "idle"

\* Batch 1 is capturing and the device id has been cleared: a request with an
\* empty name and a request with a valid name are both refused.
C23_Witness ==
  /\ scanning
  /\ proc[1] = "running"
  /\ currentBatchName = 1
  /\ settings.deviceId = ""
  /\ StartError("") = "Invalid batch name"
  /\ StartError("batch") # "none"

\* C24: a Front page that is processed and written sets the card count to
\* exactly its card number; a Back page that is written, and a page whose
\* processing or write fails, leave the card count as it was.  (The count that
\* the page leaves is the one its progress event carries; a reset reaction that
\* runs right after it sets the count to 0.)
C24_CountSetByFront ==
  [][\A k \in 1..Len(tasks) :
       /\ Ends(k, "written") =>
            /\ tasks'[k].current = IF tasks[k].side = "F" THEN tasks[k].cardNumber
                                                          ELSE cardCount
            /\ cardCount' = IF ResetRuns THEN 0 ELSE tasks'[k].current
       /\ Ends(k, "failed") =>
            cardCount' = IF ResetRuns THEN 0 ELSE cardCount]_vars

\* Page 1 (card 1 Front) and page 2 (card 1 Back) of a duplex session are both
\* written, and the Back page left the count at 1.
C24_Witness ==
  \E i, j \in 1..Len(tasks) :
    /\ tasks[i].side = "F" /\ tasks[i].res = "written" /\ tasks[i].current = 1
    /\ tasks[j].side = "B" /\ tasks[j].res = "written" /\ tasks[j].current = 1
    /\ i < j

----------------------------------------------------------------------------
\* C25: crop validation is advisory.  When autoCrop finds a region that is
\* judged invalid (too narrow, or too high), a processCard that resolves still
\* takes the page on to writeFile, with that validation recorded; and for a
\* page whose region was judged invalid a successful write puts the file in the
\* page's output directory, sets the card count to the card number for a Front page (leaves it for a
\* Back page) and sends one 'scan:progress' carrying that count.
C25_ValidationAdvisory ==
  \A k \in 1..Len(tasks) :
    /\ tasks[k].st = "processCard" =>
         \A region \in {r \in Regions : r.width = 1000 \/ r.height = 2391} :
           ENABLED (/\ ~validateCrop(region, tasks[k].dpi).valid
                    /\ ProcessCardDone(LimPages, k, TRUE, region)
                    /\ tasks'[k].st = "writeFile"
                    /\ tasks'[k].res = "none"
                    /\ tasks'[k].validation = validateCrop(region, tasks[k].dpi))
    /\ (tasks[k].st = "writeFile" /\ ~tasks[k].validation.valid) =>
         ENABLED (/\ WriteFileDone(k, TRUE)
                  /\ tasks'[k].res = "written"
                  /\ tasks'[k].dest = tasks[k].outputDir
                  /\ tasks'[k].progress = tasks[k].progress + 1
                  /\ cardCount' = IF tasks[k].side = "F" THEN tasks[k].cardNumber
                                                         ELSE cardCount
                  /\ tasks'[k].current = cardCount')
    /\ (tasks[k].res = "written" /\ ~tasks[k].validation.valid) =>
         /\ tasks[k].progress = 1
         /\ tasks[k].dest = tasks[k].outputDir
         /\ tasks[k].side = "F" => tasks[k].current = tasks[k].cardNumber

\* A Front page and a Back page whose regions were both judged invalid have
\* been written; the card count is the Front page's card number.
C25_Witness ==
  /\ Len(tasks) = 2
  /\ \A k \in 1..2 : /\ tasks[k].res = "written"
                     /\ ~tasks[k].validation.valid
                     /\ tasks[k].progress = 1
  /\ tasks[1].side = "F" /\ tasks[2].side = "B"
  /\ cardCount = tasks[1].cardNumber

----------------------------------------------------------------------------
\* C26: validateCrop at DPI 600.  The expected size is 1488 x 2079 px.  For a
\* page processed at DPI 600 the validation that processCard returned for its
\* region says valid exactly when the width is within 15% of 1488, the height
\* within 15% of 2079 and the ratio width/height within 15% of 63/88; otherwise
\* its reason names the first failing check in the order width, height, ratio,
\* a width or height reason giving the measured value and the rounded range.
\* Region 1488 x 2079 is valid and a region of width 1000 is refused for its
\* width, with range 1265-1711.
WithinPercent(value, expected, percent) ==
  100 * Abs(value - expected) <= percent * expected

RatioWithinPercent(w, h, rw, rh, percent) ==
  100 * Abs(w * rh - h * rw) <= percent * rw * h

C26_ValidateCropAt600 ==
  /\ mmToPixels(63, 600) = 1488
  /\ mmToPixels(88, 600) = 2079
  /\ \A k \in 1..Len(tasks) :
       (tasks[k].region # NoRegion /\ tasks[k].dpi = 600) =>
         LET r == tasks[k].region
             v == tasks[k].validation
             wOk == WithinPercent(r.width, 1488, 15)
             hOk == WithinPercent(r.height, 2079, 15)
             ratioOk == RatioWithinPercent(r.width, r.height, 63, 88, 15)
         IN /\ v.valid <=> (wOk /\ hOk /\ ratioOk)
            /\ v.valid => v.reason = <<>>
            /\ ~wOk => v.reason = <<"Width", r.width, 1265, 1711>>
            /\ (wOk /\ ~hOk) => v.reason = <<"Height", r.height, 1767, 2391>>
            /\ (wOk /\ hOk /\ ~ratioOk) => v.reason[1] = "Aspect ratio"
            /\ r = [width |-> 1488, height |-> 2079] => v.valid
            /\ r.width = 1000 => ~v.valid /\ v.reason[1] = "Width"

\* Two pages have been processed at DPI 600: one whose region fails both the
\* height check and the ratio check and is refused for its height, and one
\* within both bands that is refused for its ratio.
C26_Witness ==
  /\ Len(tasks) = 2
  /\ tasks[1].dpi = 600 /\ tasks[2].dpi = 600
  /\ tasks[1].region = [width |-> 1488, height |-> 1767]
  /\ tasks[1].validation.reason = <<"Height", 1767, 1767, 2391>>
  /\ ~RatioWithinPercent(1488, 1767, 63, 88, 15)
  /\ tasks[2].region = [width |-> 1265, height |-> 2079]
  /\ tasks[2].validation.reason[1] = "Aspect ratio"

----------------------------------------------------------------------------
\* The decimal value of a sequence of digit characters.
RECURSIVE DigitsValue(_)
DigitsValue(str) ==
  IF str = <<>> THEN 0
  ELSE 10 * DigitsValue(SubSeq(str, 1, Len(str) - 1))
       + (CHOOSE d \in 0..9 : DigitChars[d + 1] = str[Len(str)])

\* The filename of every processed page: for a card number of at most four
\* digits, four digits whose value is the card number, then the side letter, a
\* dot and the extension (seven elements, the extension being one); two
\* processed pages with different (card, side) have different filenames.
FilenamesWellFormed ==
  \A j \in 1..Len(tasks) :
    tasks[j].filename # <<>> =>
      LET f == tasks[j].filename
          n == Len(f)
      IN /\ n >= 7
         /\ tasks[j].cardNumber <= 9999 => n = 7
         /\ DigitsValue(SubSeq(f, 1, n - 3)) = tasks[j].cardNumber
         /\ SubSeq(f, n - 2, n) = <<tasks[j].side, ".", tasks[j].format>>
         /\ \A k \in 1..Len(tasks) :
              (tasks[k].filename = f) =>
                /\ tasks[k].cardNumber = tasks[j].cardNumber
                /\ tasks[k].side = tasks[j].side

\* C27: no page of a batch overwrites another page's file.  Two pages that were
\* read from different scratch directories or have different sequence numbers,
\* and were both written to the output directory of one batch, were written
\* under different filenames.
C27_NoPageOverwritesAnother ==
  \A j, k \in 1..Len(tasks) :
    (/\ tasks[j].res = "written" /\ tasks[k].res = "written"
     /\ tasks[j].dest = tasks[k].dest
     /\ (tasks[j].src # tasks[k].src \/ tasks[j].pageNumber # tasks[k].pageNumber))
    => tasks[j].filename # tasks[k].filename

----------------------------------------------------------------------------
\* The arguments of session b's scan tool include the flag.
HasFlag(a, flag) == \E i \in 1..Len(a) : a[i].flag = flag

\* The value given with the flag.
FlagValue(a, flag) == a[CHOOSE i \in 1..Len(a) : a[i].flag = flag].value

\* C28: tone-adjustment flags.  When 'scanner:start' builds the scan options,
\* colour options are passed exactly when the configured scanner brightness,
\* contrast or gamma differs from neutral (0, 0, 1.0), and every brightness and
\* contrast from -50..50 is mapped into -127..127.  When the tool is spawned,
\* --tone-adjustment is given exactly when colour options were passed, and
\* --brightness, --contrast and --gamma are given only with it and only when
\* the mapped value is not neutral, in which case they carry that value.
C28_ToneFlags ==
  [][\A b \in Batches :
       /\ (b \in mkdtemps' /\ b \notin mkdtemps) =>
            LET c == optionsOf'[b].color
            IN /\ c.defined <=> ~(/\ settings.scannerBrightness = 0
                                  /\ settings.scannerContrast = 0
                                  /\ settings.scannerGamma = 10)
               /\ c.defined => /\ c.brightness \in -127..127
                               /\ c.contrast \in -127..127
                               /\ c.brightness = 0 <=> settings.scannerBrightness = 0
                               /\ c.contrast = 0 <=> settings.scannerContrast = 0
                               /\ c.gamma = settings.scannerGamma
       /\ (argv[b] = <<>> /\ argv'[b] # <<>>) =>
            LET a == argv'[b]
                c == optionsOf[b].color
            IN /\ HasFlag(a, "--tone-adjustment") <=> c.defined
               /\ HasFlag(a, "--brightness") <=> (c.defined /\ c.brightness # 0)
               /\ HasFlag(a, "--contrast") <=> (c.defined /\ c.contrast # 0)
               /\ HasFlag(a, "--gamma") <=> (c.defined /\ c.gamma # 10)
               /\ HasFlag(a, "--brightness") => FlagValue(a, "--brightness") = c.brightness
               /\ HasFlag(a, "--contrast") => FlagValue(a, "--contrast") = c.contrast
               /\ HasFlag(a, "--gamma") => FlagValue(a, "--gamma") = c.gamma]_vars

\* The tool was spawned with brightness 50 and neutral contrast and gamma
\* configured: --tone-adjustment and --brightness 127, no other colour flag.
C28_Witness ==
  /\ proc[1] = "running"
  /\ HasFlag(argv[1], "--tone-adjustment")
  /\ HasFlag(argv[1], "--brightness") /\ FlagValue(argv[1], "--brightness") = 127
  /\ ~HasFlag(argv[1], "--contrast")
  /\ ~HasFlag(argv[1], "--gamma")

----------------------------------------------------------------------------
\* The lines of an output: the pieces between line ends.
RECURSIVE Lines(_, _)
Lines(str, line) ==
  IF str = <<>> THEN <<line>>
  ELSE IF Head(str) = "\n" THEN <<line>> \o Lines(Tail(str), <<>>)
  ELSE Lines(Tail(str), Append(line, Head(str)))

\* The line holds the device pattern: the opening of a device record, an id
\* without a closing quote in it, the closing quote, " is a " and a description.
LineMatches(line) ==
  \E i, q \in 1..Len(line) :
    /\ line[i] = "device <"
    /\ q >= i + 2
    /\ line[q] = "'"
    /\ \A k \in (i + 1)..(q - 1) : line[k] # "'"
    /\ q + 2 <= Len(line)
    /\ line[q + 1] = " is a "

NoLineMatches(str) ==
  LET lines == Lines(str, <<>>)
  IN \A n \in 1..Len(lines) : ~LineMatches(lines[n])

\* The call ended with the 'close' of a tool that was spawned.
ToolRan ==
  /\ deviceList.pc = "closed"
  /\ deviceList.outcome.message \notin
       {"scanimage not found. Install sane-utils package."} \cup SpawnErrorCodes

\* C29: a run of the tool that prints no line matching the device pattern
\* resolves to an empty list (runs that end with a failure status and a
\* permission message on stderr, which are rejected on purpose, set aside):
\* lines that do not match are skipped.
C29_NoMatchingLineEmptyList ==
  (/\ ToolRan
   /\ NoLineMatches(deviceList.stdout)
   /\ ~(deviceList.code # 0 /\ "permission denied" \in deviceList.stderr))
  => deviceList.outcome = Resolves(<<>>)

----------------------------------------------------------------------------
\* Page reactions j and k are for the same scanned page: the same file of the
\* same scratch directory.
SamePage(j, k) ==
  tasks[j].src = tasks[k].src /\ tasks[j].pageNumber = tasks[k].pageNumber

\* C30: when processCard fails for a page, no output file is written for it,
\* the card count stays as it was (but for a batch reset that was waiting for
\* the page), exactly one 'scan:error' naming the page's card number and side
\* has been sent for it, and the page is not processed again: no further
\* reaction for the same page is waiting in the queue behind it.
C30_FailedPageOnce ==
  [][\A k \in 1..Len(tasks) :
       (tasks[k].st = "processCard" /\ Ends(k, "failed")) =>
         /\ tasks'[k].st = "done"
         /\ tasks'[k].dest = NULL
         /\ tasks'[k].progress = 0
         /\ cardCount' = IF ResetRuns THEN 0 ELSE cardCount
         /\ tasks'[k].errors = << <<tasks[k].cardNumber, tasks[k].side>> >>
         /\ \A j \in (k + 1)..Len(tasks') : ~SamePage(j, k)]_vars

\* The same, without the last part: the failure of processCard by itself.
FailedPageReported ==
  [][\A k \in 1..Len(tasks) :
       (tasks[k].st = "processCard" /\ Ends(k, "failed")) =>
         /\ tasks'[k].st = "done"
         /\ tasks'[k].dest = NULL
         /\ tasks'[k].progress = 0
         /\ cardCount' = IF ResetRuns THEN 0 ELSE cardCount
         /\ tasks'[k].errors = << <<tasks[k].cardNumber, tasks[k].side>> >>]_vars

----------------------------------------------------------------------------
\* The orchestrator and the scanner are idle.
Idle ==
  /\ currentBatchName = NULL
  /\ currentOutputDir = NULL
  /\ cardCount = 0
  /\ ~scanning

\* C31: liveness.  Whenever the scan process of an accepted batch has been
\* spawned (and so, by the assumptions, closes in the end, every step of every
\* queued page settling), the session emits a terminal event and its reset
\* reaction runs, and the batch state is reset to Idle.
C31_EndsAndResets ==
  \A b \in Batches :
    /\ (proc[b] = "running") ~> (Emitted(b, "complete") + Emitted(b, "error") >= 1
                                 /\ Terminal(b) >= 1)
    /\ (proc[b] = "running") ~> Idle

\* The service as stop() leaves it.
Stopped ==
  /\ ~scanning
  /\ pollInterval = NULL
  /\ tempDir = NULL
  /\ process = NULL

\* C32: stop() is idempotent.  Every stop() leaves the service stopped (not
\* scanning, no timer, no scratch directory, no process), and a stop() called on
\* a stopped service (a second call, or a call with no session) changes nothing
\* at all: no signal is sent, no event is emitted, no field changes.
C32_StopIdempotent ==
  [][Stop => /\ Stopped'
             /\ (Stopped => UNCHANGED vars)]_vars

\* A first stop() has ended a running session (the signal was sent, the process
\* has not closed yet) and the service is stopped: the state a second stop() is
\* called in.
C32_Witness ==
  /\ Stopped
  /\ \E s \in Batches : killed[s] /\ proc[s] = "running"

\* A step of the 'close' handler of session s: the handler itself, or one of the
\* steps of its waitForRemainingPages.
CloseHandler(s) ==
  \/ \E code \in LimStop.codes \cup {SpawnFailCode} : ProcClose(LimStop, s, code)
  \/ DrainDelay(s)
  \/ \E ok \in BOOLEAN : DrainReaddir(s, ok)
  \/ \E ok \in BOOLEAN : DrainListing(s, ok)

\* C33: the late 'close' of a session that stop() ended leaves a session started
\* afterwards alone.  While the process of another session is the current one,
\* no step of the stopped session's close handler clears the poll timer, lists
\* or removes the scratch directory, sets scanning to false, or emits a terminal
\* event.
C33_LateCloseHarmless ==
  [][\A s \in Batches :
       (killed[s] /\ process # NULL /\ process # s /\ CloseHandler(s))
         => /\ UNCHANGED <<scanning, pollInterval, timers, tempDir, dir>>
            /\ drain'[s].poll.dir # tempDir
            /\ Emitted(s, "complete")' = Emitted(s, "complete")
            /\ Emitted(s, "error")' = Emitted(s, "error")]_vars

\* C34: the state reset scheduled at the end of batch A's queue never clears the
\* state of a later batch B.  When a reset reaction of session A runs while
\* another batch is the current one and that batch's capture has begun, the
\* current batch name, output directory and processing queue stay as they are.
C34_ResetSparesLaterBatch ==
  [][\A i \in 1..Len(conts) :
       (/\ ~conts[i].ran /\ conts'[i].ran
        /\ currentBatchName # NULL
        /\ currentBatchName # conts[i].sess
        /\ proc[currentBatchName] # "none")
         => /\ currentBatchName' = currentBatchName
            /\ currentOutputDir' = currentOutputDir
            /\ processingQueue' = processingQueue]_vars

\* C35: a stop() issued while startBatch is creating the scratch directory
\* cancels the session.  When mkdtemp returns to a startBatch whose session was
\* stopped meanwhile (scanning is false again), no scan process is spawned and no
\* poll timer is started.
C35_StopCancelsStart ==
  [][\A b \in Batches :
       (b \in mkdtemps /\ ~scanning /\ MkdtempDone(b, TRUE))
         => /\ proc'[b] # "running"
            /\ process' = process
            /\ timers' = timers]_vars

\* C36: of two overlapping 'scanner:start' requests at most one succeeds, and
\* the current batch is the one being captured.  When a request is acknowledged
\* with success (its mkdir has resolved and the handler goes on to startBatch and
\* returns), no capture session of another request is in progress, and
\* currentBatchName and currentOutputDir are those of this request.
C36_OneOfOverlappingStarts ==
  [][\A b \in Batches :
       (b \in starts /\ MkdirDone(b, TRUE))
         => /\ ~scanning
            /\ currentBatchName = b
            /\ currentOutputDir = b]_vars

\* C37: a capture session emits one terminal scanner event over its whole life.
\* At no moment has a session emitted more than one of 'complete' and 'error',
\* a session whose spawn 'error' is followed by 'close' included.
C37_OneTerminalEvent ==
  \A s \in Batches : Emitted(s, "complete") + Emitted(s, "error") <= 1

\* C38: no 'page' event of a session is emitted after that session's terminal
\* event.  Every page a session has emitted from its own scratch directory was
\* emitted before each 'complete' or 'error' of that session.
C38_NoPageAfterTerminal ==
  \A i \in 1..Len(conts), k \in 1..Len(tasks) :
    (tasks[k].sess = conts[i].sess /\ tasks[k].src = tasks[k].sess)
      => k <= conts[i].emitted

\* C39: no emitted page is dropped silently.  Every page event is handled with
\* an output directory, and no page reaction ends without a written file (with
\* its progress event) or a page-scoped 'scan:error'.
C39_NoPageDropped ==
  \A k \in 1..Len(tasks) :
    /\ tasks[k].outputDir # NULL
    /\ tasks[k].res # "dropped"
    /\ tasks[k].res = "written" => tasks[k].progress = 1 /\ tasks[k].errors = <<>>
    /\ tasks[k].res = "failed" => tasks[k].progress = 0 /\ Len(tasks[k].errors) = 1

\* C40: all pages of one batch are processed with the same processing options.
\* Any two pages of a batch whose processing has begun were given the same
\* output format and the same DPI.
C40_SameOptionsInBatch ==
  \A i, j \in 1..Len(tasks) :
    (SameBatch(i, j) /\ tasks[i].format # "" /\ tasks[j].format # "")
      => /\ tasks[i].format = tasks[j].format
         /\ tasks[i].dpi = tasks[j].dpi

====
